---- MODULE Spec2Model ----
(***************************************************************************)
(* Vault synchronization and storage coordination of identity-veramo.      *)
(*                                                                         *)
(* The model follows the components wired by createVault                   *)
(* (src/src/vault/index.ts): FileVaultStorage                              *)
(* (src/src/vault/services/file-vault-storage.ts), VaultSynchronizer       *)
(* (src/src/vault/services/vault-synchronizer.ts) and VaultOperator        *)
(* (src/src/vault/services/vault-operator.ts, and the seeding variant of   *)
(* use/createNew in src/unnamed/part_011), together with the vault-scoped  *)
(* filesystem router DynamicVaultFilesystem                                *)
(* (src/test/integration/complete-workflow.test.ts:306-407).  The events   *)
(* the router emits are delivered to VaultSynchronizer.update, the         *)
(* EventObserver entry point, synchronously inside the emitting call.      *)
(*                                                                         *)
(* Every await of the code is a separate step of the model; code between   *)
(* two awaits is one atomic action.                                        *)
(*                                                                         *)
(* The specifications share the actions:                                  *)
(*   Spec      the system with VaultOperator of vault-operator.ts, whose   *)
(*             use() activates a vault without seeding;                    *)
(*   SpecSeed  the system with VaultOperator of unnamed/part_011, whose    *)
(*             use() awaits seedFilesFromVault;                            *)
(*   SpecOps   the operator's and the storage's calls on the records of    *)
(*             two vaults;                                                 *)
(*   SpecDel   deleteVault and deleteIdentity among folds;                 *)
(*   SpecUpd   updateVault among folds;                                    *)
(*   SpecWrite readers of a record file while it is written;               *)
(*   SpecRouter the router's writes, failed writes, reads and deletes      *)
(*             over two vaults;                                            *)
(*   SpecTwo   folds of two vaults used in turn;                           *)
(*   SpecSeedTwo two vaults whose use() calls seed and overlap;            *)
(*   SpecSeedFail use() whose seeding writes may fail;                     *)
(*   SpecShared two operations that each select a vault and then write;    *)
(*   SpecRecreate a vault deleted and created again under the same id;     *)
(*   SpecCreate createNew calls that overlap, await by await;              *)
(*   SpecRound seeding the files of a stored record and folding them back; *)
(*   SpecAdapter the VC store adapter on a seeded vcstore.json.            *)
(* FairSpec is Spec with the event loop running every enabled fold step;   *)
(* FairSpecTwo is SpecTwo with only the folds of one vault kept running.   *)
(***************************************************************************)
EXTENDS Integers, Sequences, FiniteSets, TLC

(* ----------------------------- bounds ---------------------------------- *)

\* Number of Router calls (each one raises one change event).
MaxEvents == 2

\* Number of createNew calls that succeed (each draws a fresh createdAt).
MaxCreates == 2

\* Storage updates a caller leaves outstanding at a time.
MaxPending == 2

(* ----------------------------- values ---------------------------------- *)

VaultIds == {"va", "vb"}

\* The vault ids the operator is called with.
UsedVaultIds == {"va"}

Null == "null"

\* knownFiles of the synchronizer: section -> flat file name.
Sections == {"didStore", "keyStore", "privateKeyStore", "vcStore"}

knownFiles ==
  [s \in Sections |->
     CASE s = "didStore" -> "didstore.json"
       [] s = "keyStore" -> "keystore.json"
       [] s = "privateKeyStore" -> "private-keystore.json"
       [] s = "vcStore" -> "vcstore.json"]

KnownFileNames == {knownFiles[s] : s \in Sections}

\* A file name the toolkit may write that is none of the four.
OtherFile == "other.json"

FileNames == KnownFileNames \cup {OtherFile}

\* Toolkit records. nk is the record's natural key (did, kid, alias or
\* credential id) split at ':' into segments; << >> is a record that carries
\* no such field.
RecA == [nk |-> <<"k1">>]
RecU == [nk |-> <<"u", "k1">>]
RecN == [nk |-> << >>]

\* Contents of a flat file: absent, text that is not JSON, or a JSON map given
\* as the sequence of its entries in insertion order (keys pairwise distinct).
AbsentFile == [kind |-> "absent", entries |-> << >>]
CorruptFile == [kind |-> "corrupt", entries |-> << >>]
MapFile(m) == [kind |-> "map", entries |-> m]

MapOne == << [k |-> <<"k2">>, v |-> RecN] >>
MapTwo == << [k |-> <<"k1">>, v |-> RecA], [k |-> <<"u", "k1">>, v |-> RecU] >>

\* What the toolkit may put into a flat file.
ToolkitContents == {MapFile(MapOne), MapFile(MapTwo), CorruptFile}

EmptySections == [s \in Sections |-> << >>]

\* Canonical record file of a vault that has none.
AbsentRec == [ex |-> FALSE, id |-> Null, createdAt |-> 0, sec |-> EmptySections]

\* A record file that writeFile has opened (and so truncated) and not yet
\* filled: it exists and JSON.parse of its text throws.
TruncatedRec == [AbsentRec EXCEPT !.ex = TRUE]

IsParsable(rec) == rec.ex /\ rec.id # Null

(* ----------------------------- state ----------------------------------- *)

VARIABLES
  store,         \* canonical record file per vault id (ex = FALSE: no file)
  flat,          \* flat[v][f]: content of <baseDir>/v/f
  ctxActive,     \* Active-Vault Context (vaultEventService active vault id)
  activeVaultId, \* VaultSynchronizer.activeVaultId
  updateQueues,  \* VaultSynchronizer.updateQueues: per vault id, the chained folds
  foldPc,        \* position of the fold at the head of each queue
  foldData,      \* dataArray of the fold at the head of each queue
  pending,       \* storage updates whose lock().then(write) has not finished
  seed,          \* seedFilesFromVault call per vault id: position and outcome
  nEvents,       \* Router calls so far
  nCreated,      \* successful createNew calls so far
  foldLog,       \* history: per change event, the event and its fold's fate
  used,          \* history: the vault ids whose use() has returned success
  ret            \* result returned by the operator call that has just completed

vars == <<store, flat, ctxActive, activeVaultId, updateQueues, foldPc, foldData,
          pending, seed, nEvents, nCreated, foldLog, used, ret>>

\* The Result of the last completed call: err names the failure (after its
\* message: 'already exists', 'does not exist', 'No active vault selected',
\* a TypeError caught and wrapped); val is the record a get returned and
\* list the ids of the records a list returned.
NoRet == [op |-> "none", id |-> Null, ok |-> FALSE, err |-> "none",
          val |-> AbsentRec, list |-> {}, thrown |-> FALSE]

Return(op, v, ok) ==
  [NoRet EXCEPT !.op = op, !.id = v, !.ok = ok,
                !.err = IF ok THEN "none" ELSE "Error"]

Fail(op, v, err) == [NoRet EXCEPT !.op = op, !.id = v, !.err = err]

ReturnVal(op, v, rec) ==
  [NoRet EXCEPT !.op = op, !.id = v, !.ok = TRUE, !.val = rec]

\* The call ended with an exception (a rejected promise), not a Result.
Throw(op, v, err) ==
  [NoRet EXCEPT !.op = op, !.id = v, !.err = err, !.thrown = TRUE]

ReturnList(op, ids) == [NoRet EXCEPT !.op = op, !.ok = TRUE, !.list = ids]

\* pc: position of the call; caller: "use" or "seed"; vault: the record the
\* call loaded; skipped: the call returned at the already-seeded check.
\* prev: the two active-vault slots as they were when the call started (kept
\* while the call runs, to compare with the slots when it returns).
NoPrev == [ctx |-> Null, sync |-> Null]

IdleSeed == [pc |-> "idle", caller |-> "none", vault |-> AbsentRec,
             skipped |-> FALSE, prev |-> NoPrev]

\* vault: the vault whose queue holds the fold; eventVault: the vaultId of the
\* event.
\* st: none, ignored, queued, started (record read), resolved (update
\* returned, write outstanding), landed, dropped (lock failed), failed.
NoFold == [st |-> "none", op |-> "none", name |-> Null, vault |-> Null,
           eventVault |-> Null, written |-> AbsentFile]

Init ==
  /\ store = [v \in VaultIds |-> AbsentRec]
  /\ flat = [v \in VaultIds |-> [f \in FileNames |-> AbsentFile]]
  /\ ctxActive = Null
  /\ activeVaultId = Null
  /\ updateQueues = [v \in VaultIds |-> << >>]
  /\ foldPc = [v \in VaultIds |-> "get"]
  /\ foldData = [v \in VaultIds |-> << >>]
  /\ pending = {}
  /\ seed = [v \in VaultIds |-> IdleSeed]
  /\ nEvents = 0
  /\ nCreated = 0
  /\ foldLog = [n \in 1..MaxEvents |-> NoFold]
  /\ used = {}
  /\ ret = NoRet

(* ------------------------- pure functions ------------------------------ *)

\* Object.values(parsedData): the values of a JSON map in insertion order.
ObjectValues(entries) == [i \in 1..Len(entries) |-> entries[i].v]

\* A merge that takes every field the incoming record carries, id included.
MergeRecordAll(cur, upd) ==
  [ex |-> TRUE,
   id |-> IF "id" \in DOMAIN upd THEN upd.id ELSE cur.id,
   createdAt |-> IF "createdAt" \in DOMAIN upd THEN upd.createdAt
                                                ELSE cur.createdAt,
   sec |-> [s \in Sections |->
              IF s \in DOMAIN upd.sec THEN upd.sec[s] ELSE cur.sec[s]]]

\* FileVaultStorage.update: {...currentVault, ...vaultData, id: currentVault.id}.
\* upd.sec is defined on the sections the incoming record carries; every
\* other field it carries (createdAt) is taken too, only id is kept.
MergeRecord(cur, upd) ==
  [ex |-> TRUE,
   id |-> cur.id,
   createdAt |-> IF "createdAt" \in DOMAIN upd THEN upd.createdAt
                                                ELSE cur.createdAt,
   sec |-> [s \in Sections |->
              IF s \in DOMAIN upd.sec THEN upd.sec[s] ELSE cur.sec[s]]]

\* What spreading a string into the merged object contributes: properties
\* named by character positions, none of them a field of the record.
StringSpread == [sec |-> << >>]

\* Incoming records of FileVaultStorage.update: one section under another
\* vault's id, a full record with its own createdAt, and a JSON string.
SectionRecord == [id |-> "vb", sec |-> [s \in {"didStore"} |-> <<RecA>>]]

FullRecord ==
  [id |-> "va", createdAt |-> MaxCreates + 1,
   sec |-> [s \in Sections |-> IF s = "keyStore" THEN <<RecU>> ELSE << >>]]

Updates == {SectionRecord, FullRecord, StringSpread}

\* processSectionUpdate: the targeted update { id, [section]: dataArray }.
SectionUpdate(vaultId, section, dataArray) ==
  [id |-> vaultId, sec |-> [s \in {section} |-> dataArray]]

\* handleFileChange: the section whose known file name is the basename.
SectionOfFile(filename) ==
  IF filename \in KnownFileNames
    THEN CHOOSE s \in Sections : knownFiles[s] = filename
    ELSE Null

\* obj[k] = v on a JSON object: an existing key keeps its place.
PutEntry(entries, k, v) ==
  IF \E i \in 1..Len(entries) : entries[i].k = k
    THEN [i \in 1..Len(entries) |->
            IF entries[i].k = k THEN [k |-> k, v |-> v] ELSE entries[i]]
    ELSE Append(entries, [k |-> k, v |-> v])

\* seedFilesFromVault: whether a record of the section is put into the map.
\* DIDs and keys always are; private keys need an alias, credentials an id.
IsSeeded(section, r) ==
  IF section \in {"privateKeyStore", "vcStore"} THEN r.nk # << >> ELSE TRUE

\* seedFilesFromVault: the map key of a record: did.did, key.kid, the alias,
\* or vc.id.split(':').pop().  A missing did/kid is the key "undefined".
SeedKey(section, r) ==
  IF section = "vcStore" THEN <<r.nk[Len(r.nk)]>>
  ELSE IF r.nk = << >> THEN <<"undefined">>
  ELSE r.nk

RECURSIVE SeedEntries(_, _, _)
SeedEntries(section, arr, acc) ==
  IF arr = << >> THEN acc
  ELSE SeedEntries(section, Tail(arr),
         IF IsSeeded(section, Head(arr))
           THEN PutEntry(acc, SeedKey(section, Head(arr)), Head(arr))
           ELSE acc)

\* seedFilesFromVault: the flat file written for a section array.
SeedFile(section, arr) == MapFile(SeedEntries(section, arr, << >>))

(* ------------------- synchronizer: event handling ---------------------- *)

\* The event DynamicVaultFilesystem emits: emitFileChanged(fullPath, vaultId, op).
FileChanged(vaultId, filename, operation) ==
  [filePath |-> [dir |-> vaultId, name |-> filename],
   vaultId |-> vaultId, operation |-> operation]

\* What handleFileChange and syncSection decide for an event, given the
\* synchronizer's active vault: the early returns in the order of the code.
\* (Every vault id the Router puts into an event is the id of a vault that
\* use() found in storage, so VaultId.create accepts it.)
DispositionAll(event, active) ==
  IF SectionOfFile(event.filePath.name) = Null THEN "unknown-file"
  ELSE IF active = Null THEN "no-active-vault"
  ELSE "enqueued"

Disposition(event, active) ==
  IF event.operation # "write" THEN "not-a-write"
  ELSE IF SectionOfFile(event.filePath.name) = Null THEN "unknown-file"
  ELSE IF active = Null THEN "no-active-vault"
  ELSE "enqueued"

\* The .catch at the end of a queue link: the stored promise resolves whether
\* processSectionUpdate resolved or threw, so the next link runs.  Without
\* it a rejection would skip every link chained behind.
QueueAfterNoCatch(q, outcome) ==
  IF outcome = "failed" THEN << >> ELSE Tail(q)

QueueAfter(q, outcome) == Tail(q)

\* update -> handleFileChange -> syncSection, all synchronous: the fold for
\* the event is chained onto the queue of the synchronizer's active vault.
\* n is the number of the event, content what the Router call wrote.
Observe(event, n, content) ==
  LET d == Disposition(event, activeVaultId)
      section == SectionOfFile(event.filePath.name)
  IN /\ updateQueues' =
          IF d = "enqueued"
            THEN [updateQueues EXCEPT ![activeVaultId] =
                    Append(@, [n |-> n, section |-> section,
                               filePath |-> event.filePath])]
            ELSE updateQueues
     /\ foldLog' = [foldLog EXCEPT ![n] =
          [st |-> IF d = "enqueued" THEN "queued" ELSE "ignored",
           op |-> event.operation,
           name |-> event.filePath.name,
           vault |-> IF d = "enqueued" THEN activeVaultId ELSE Null,
           eventVault |-> event.vaultId,
           written |-> content]]

(* --------------------- vault-scoped filesystem router ------------------ *)

\* A write that changes the file and emits nothing.
RouterWriteNoEvent(f, c) ==
  /\ ctxActive # Null
  /\ nEvents < MaxEvents
  /\ flat' = [flat EXCEPT ![ctxActive][f] = c]
  /\ ret' = NoRet
  /\ UNCHANGED <<used, store, ctxActive, activeVaultId, updateQueues, foldPc,
                 foldData, pending, seed, nEvents, nCreated, foldLog>>

\* DynamicVaultFilesystem.writeFileSync: write <baseDir>/<active>/<filename>,
\* then emit the write event.
RouterWrite(f, c) ==
  /\ ctxActive # Null
  /\ nEvents < MaxEvents
  /\ nEvents' = nEvents + 1
  /\ flat' = [flat EXCEPT ![ctxActive][f] = c]
  /\ Observe(FileChanged(ctxActive, f, "write"), nEvents + 1, c)
  /\ ret' = NoRet
  /\ UNCHANGED <<used, store, ctxActive, activeVaultId, foldPc, foldData, pending,
                 seed, nCreated>>

\* DynamicVaultFilesystem.writeFileSync when the ensureDirSync or writeFileSync
\* of the base filesystem throws: the exception leaves the method before
\* emitFileChanged is reached.  The file is as it was (the open failed) or
\* cut short (the write failed after the file was truncated).
RouterWriteFails(f) ==
  /\ ctxActive # Null
  /\ \E c \in {flat[ctxActive][f], CorruptFile} :
       flat' = [flat EXCEPT ![ctxActive][f] = c]
  /\ ret' = Throw("write", ctxActive, "IOError")
  /\ UNCHANGED <<used, store, ctxActive, activeVaultId, updateQueues, foldPc,
                 foldData, pending, seed, nEvents, nCreated, foldLog>>

\* DynamicVaultFilesystem.readFileSync: read, then emit a read event.
RouterRead(f) ==
  /\ ctxActive # Null
  /\ nEvents < MaxEvents
  /\ flat[ctxActive][f].kind # "absent"
  /\ nEvents' = nEvents + 1
  /\ Observe(FileChanged(ctxActive, f, "read"), nEvents + 1, AbsentFile)
  /\ ret' = NoRet
  /\ UNCHANGED <<used, store, flat, ctxActive, activeVaultId, foldPc, foldData,
                 pending, seed, nCreated>>

\* DynamicVaultFilesystem.deleteFileSync: delete, then emit a delete event.
RouterDelete(f) ==
  /\ ctxActive # Null
  /\ nEvents < MaxEvents
  /\ flat[ctxActive][f].kind # "absent"
  /\ nEvents' = nEvents + 1
  /\ flat' = [flat EXCEPT ![ctxActive][f] = AbsentFile]
  /\ Observe(FileChanged(ctxActive, f, "delete"), nEvents + 1, AbsentFile)
  /\ ret' = NoRet
  /\ UNCHANGED <<used, store, ctxActive, activeVaultId, foldPc, foldData, pending,
                 seed, nCreated>>

\* The router's operations that start with the active-vault check.
RouterOps == {"exists", "read", "write", "delete", "ensureDir", "readDir"}

\* A router operation that returns normally with no active vault.
RouterNoVaultSilent(op) ==
  /\ ctxActive = Null
  /\ ret' = Return(op, Null, TRUE)
  /\ UNCHANGED <<used, store, flat, ctxActive, activeVaultId, updateQueues, foldPc,
                 foldData, pending, seed, nEvents, nCreated, foldLog>>

\* A router operation with no active vault: the check at its start throws
\* 'No active vault selected'; nothing is written and no event is emitted.
RouterNoVault(op) ==
  /\ ctxActive = Null
  /\ ret' = Fail(op, Null, "NoActiveVault")
  /\ UNCHANGED <<used, store, flat, ctxActive, activeVaultId, updateQueues, foldPc,
                 foldData, pending, seed, nEvents, nCreated, foldLog>>

(* ------------------- synchronizer: the fold of one event --------------- *)

HeadFold(v) == Head(updateQueues[v])

\* The link of the chain settles: the fold leaves the queue.
FoldSettles(v, outcome) ==
  /\ updateQueues' = [updateQueues EXCEPT ![v] = QueueAfter(@, outcome)]
  /\ foldPc' = [foldPc EXCEPT ![v] = "get"]
  /\ foldData' = [foldData EXCEPT ![v] = << >>]
  /\ foldLog' = [foldLog EXCEPT ![HeadFold(v).n].st = outcome]

\* One chain for all vault ids: a fold starts only when no fold of another
\* vault is under way.
FoldGetSerial(v) ==
  /\ updateQueues[v] # << >>
  /\ foldPc[v] = "get"
  /\ \A w \in VaultIds \ {v} : foldPc[w] = "get"
  /\ IF store[v].ex
       THEN /\ foldPc' = [foldPc EXCEPT ![v] = "read"]
            /\ foldLog' = [foldLog EXCEPT ![HeadFold(v).n].st = "started"]
            /\ UNCHANGED <<updateQueues, foldData>>
       ELSE FoldSettles(v, "failed")
  /\ ret' = NoRet
  /\ UNCHANGED <<used, store, flat, ctxActive, activeVaultId, pending, seed, nEvents,
                 nCreated>>

\* processSectionUpdate: const vault = await this.vaultStorage.get(vaultId);
\* get throws if the record file is missing.  The record read here is used
\* for nothing else.
FoldGet(v) ==
  /\ updateQueues[v] # << >>
  /\ foldPc[v] = "get"
  /\ IF store[v].ex
       THEN /\ foldPc' = [foldPc EXCEPT ![v] = "read"]
            /\ foldLog' = [foldLog EXCEPT ![HeadFold(v).n].st = "started"]
            /\ UNCHANGED <<updateQueues, foldData>>
       ELSE FoldSettles(v, "failed")
  /\ ret' = NoRet
  /\ UNCHANGED <<used, store, flat, ctxActive, activeVaultId, pending, seed, nEvents,
                 nCreated>>

\* A read step that goes on with an empty array when the flat file is missing
\* or is not JSON, instead of throwing.
FoldReadLenient(v) ==
  /\ updateQueues[v] # << >>
  /\ foldPc[v] = "read"
  /\ LET p == HeadFold(v).filePath
         content == flat[p.dir][p.name]
     IN /\ foldPc' = [foldPc EXCEPT ![v] = "update"]
        /\ foldData' = [foldData EXCEPT ![v] =
             IF content.kind = "map" THEN ObjectValues(content.entries)
             ELSE << >>]
        /\ UNCHANGED <<updateQueues, foldLog>>
  /\ ret' = NoRet
  /\ UNCHANGED <<used, store, flat, ctxActive, activeVaultId, pending, seed, nEvents,
                 nCreated>>

\* processSectionUpdate: await this.filesystem.readFile(filePath), JSON.parse
\* (throws on text that is not JSON, as readFile does on a missing file),
\* Object.values.  (The toolkit never writes an empty file, so the early
\* return on empty content is not taken.)
FoldRead(v) ==
  /\ updateQueues[v] # << >>
  /\ foldPc[v] = "read"
  /\ LET p == HeadFold(v).filePath
         content == flat[p.dir][p.name]
     IN IF content.kind = "map"
          THEN /\ foldPc' = [foldPc EXCEPT ![v] = "update"]
               /\ foldData' = [foldData EXCEPT ![v] = ObjectValues(content.entries)]
               /\ UNCHANGED <<updateQueues, foldLog>>
          ELSE FoldSettles(v, "failed")
  /\ ret' = NoRet
  /\ UNCHANGED <<used, store, flat, ctxActive, activeVaultId, pending, seed, nEvents,
                 nCreated>>

\* processSectionUpdate: await this.vaultStorage.update(vaultId, update).
\* FileVaultStorage.update throws if the record file is missing; otherwise
\* it reads the current record, merges, serializes, and calls
\* lockfile.lock(...).then(write) without awaiting it: the update resolves
\* with the write still to come.
FoldUpdate(v) ==
  /\ updateQueues[v] # << >>
  /\ foldPc[v] = "update"
  /\ IF store[v].ex
       THEN /\ pending' = pending \cup
                 {[n |-> HeadFold(v).n, vault |-> v, stage |-> "lock",
                   rec |-> MergeRecord(store[v],
                             SectionUpdate(v, HeadFold(v).section, foldData[v]))]}
            /\ FoldSettles(v, "resolved")
       ELSE /\ FoldSettles(v, "failed")
            /\ UNCHANGED pending
  /\ ret' = NoRet
  /\ UNCHANGED <<used, store, flat, ctxActive, activeVaultId, seed, nEvents, nCreated>>

(* ---------------- storage: the unawaited lock-then-write --------------- *)

\* lockfile.lock(filePath) resolves: the callback calls writeFile (not
\* awaited) and releases the lock.
LockAcquired(p) ==
  /\ p.stage = "lock"
  /\ store[p.vault].ex
  /\ pending' = (pending \ {p}) \cup {[p EXCEPT !.stage = "write"]}
  /\ ret' = NoRet
  /\ UNCHANGED <<used, store, flat, ctxActive, activeVaultId, updateQueues, foldPc,
                 foldData, seed, nEvents, nCreated, foldLog>>

\* lockfile.lock(filePath) rejects (the file to lock is gone): console.error,
\* nothing is written.
LockFailed(p) ==
  /\ p.stage = "lock"
  /\ ~store[p.vault].ex
  /\ pending' = pending \ {p}
  /\ foldLog' = IF p.n \in DOMAIN foldLog
                  THEN [foldLog EXCEPT ![p.n].st = "dropped"] ELSE foldLog
  /\ ret' = NoRet
  /\ UNCHANGED <<used, store, flat, ctxActive, activeVaultId, updateQueues, foldPc,
                 foldData, seed, nEvents, nCreated>>

\* The writeFile issued under the lock (fs.writeFile: open with truncation,
\* then write) has opened the record file and not yet written the text.
WriteTruncates(p) ==
  /\ p.stage = "write"
  /\ store[p.vault] # TruncatedRec
  /\ store' = [store EXCEPT ![p.vault] = TruncatedRec]
  /\ ret' = NoRet
  /\ UNCHANGED <<used, flat, ctxActive, activeVaultId, updateQueues, foldPc, foldData,
                 pending, seed, nEvents, nCreated, foldLog>>

\* The writeFile issued under the lock rejects (the file cannot be opened
\* for writing): the promise is neither awaited nor caught, the rejection is
\* unhandled and nothing is written.
WriteFails(p) ==
  /\ p.stage = "write"
  /\ pending' = pending \ {p}
  /\ foldLog' = IF p.n \in DOMAIN foldLog
                  THEN [foldLog EXCEPT ![p.n].st = "dropped"] ELSE foldLog
  /\ ret' = Throw("unhandledRejection", p.vault, "IOError")
  /\ UNCHANGED <<used, store, flat, ctxActive, activeVaultId, updateQueues, foldPc,
                 foldData, seed, nEvents, nCreated>>

\* The writeFile issued under the lock lands in the canonical record file.
WriteLands(p) ==
  /\ p.stage = "write"
  /\ store' = [store EXCEPT ![p.vault] = p.rec]
  /\ pending' = pending \ {p}
  /\ foldLog' = IF p.n \in DOMAIN foldLog
                  THEN [foldLog EXCEPT ![p.n].st = "landed"] ELSE foldLog
  /\ ret' = NoRet
  /\ UNCHANGED <<used, flat, ctxActive, activeVaultId, updateQueues, foldPc, foldData,
                 seed, nEvents, nCreated>>

\* FileVaultStorage.update(vaultId, r) called by a caller of its own (not a
\* fold): throws if the record file is missing or does not parse, otherwise
\* reads the record, merges and leaves the lock-then-write running.
StorageUpdate(v, r) ==
  /\ Cardinality(pending) < MaxPending
  /\ IF IsParsable(store[v])
       THEN /\ pending' = pending \cup
                 {[n |-> 0, vault |-> v, stage |-> "lock",
                   rec |-> MergeRecord(store[v], r)]}
            /\ ret' = Return("update", v, TRUE)
       ELSE /\ ret' = Throw("update", v,
                          IF store[v].ex THEN "ParseError" ELSE "NotFound")
            /\ UNCHANGED pending
  /\ UNCHANGED <<used, store, flat, ctxActive, activeVaultId, updateQueues, foldPc,
                 foldData, seed, nEvents, nCreated, foldLog>>

(* --------------------------- vault operator ---------------------------- *)

\* VaultOperator.createNew (unnamed/part_011) over FileVaultStorage.create:
\* fails if the record file exists, otherwise writes the empty record with
\* createdAt: new Date().
CreateNew(v) ==
  /\ IF store[v].ex
       THEN /\ ret' = Fail("createNew", v, "AlreadyExists")
            /\ UNCHANGED <<store, nCreated>>
       ELSE /\ nCreated < MaxCreates
            /\ nCreated' = nCreated + 1
            /\ store' = [store EXCEPT ![v] =
                 [ex |-> TRUE, id |-> v, createdAt |-> nCreated + 1,
                  sec |-> EmptySections]]
            /\ ret' = Return("createNew", v, TRUE)
  /\ UNCHANGED <<used, flat, ctxActive, activeVaultId, updateQueues, foldPc, foldData,
                 pending, seed, nEvents, foldLog>>

\* The second argument of FileVaultStorage.create and update as the callers
\* pass it: an IdentityVault object (unnamed/part_011, the synchronizer) or
\* the string JSON.stringify(vault.toJSON(), null, 2) (vault-operator.ts).
VaultObject == [kind |-> "object"]

JsonString == [kind |-> "string"]

\* FileVaultStorage.toPersistence(entity) starts with entity.id.toString():
\* on a string entity.id is undefined and the call throws a TypeError.
ToPersistenceThrows(entity) == entity.kind = "string"

\* FileVaultStorage.create(vaultId, identityVault): toPersistence first, then
\* the existence check (throws 'already exists'), then writeFile.
CreateOutcome(v, entity) ==
  IF ToPersistenceThrows(entity) THEN "TypeError"
  ELSE IF store[v].ex THEN "AlreadyExists"
  ELSE "written"

\* VaultOperator.createNew (vault-operator.ts) over FileVaultStorage.create:
\* IdentityVault.createNew({id}) builds the empty vault, the operator passes
\* its JSON string to create, and whatever create throws is caught and
\* returned as a failure.
CreateNewSerialized(v) ==
  LET outcome == CreateOutcome(v, JsonString) IN
  /\ IF outcome = "written"
       THEN /\ nCreated < MaxCreates
            /\ nCreated' = nCreated + 1
            /\ store' = [store EXCEPT ![v] =
                 [ex |-> TRUE, id |-> v, createdAt |-> nCreated + 1,
                  sec |-> EmptySections]]
            /\ ret' = Return("createNew", v, TRUE)
       ELSE /\ ret' = Fail("createNew", v, outcome)
            /\ UNCHANGED <<store, nCreated>>
  /\ UNCHANGED <<used, flat, ctxActive, activeVaultId, updateQueues, foldPc, foldData,
                 pending, seed, nEvents, foldLog>>

\* VaultOperator.createNew (unnamed/part_011) step by step, for calls that
\* overlap.  First await: this.vaultStorage.exists(vaultId); a record that
\* exists ends the call with 'already exists', otherwise the empty vault is
\* built with createdAt: new Date() and FileVaultStorage.create is called.
\* The call is kept in pending with stage "create".
CreateNewBegins(v) ==
  /\ Cardinality(pending) < MaxPending
  /\ IF store[v].ex
       THEN /\ ret' = Fail("createNew", v, "AlreadyExists")
            /\ UNCHANGED <<pending, nCreated>>
       ELSE /\ nCreated < MaxCreates
            /\ nCreated' = nCreated + 1
            /\ pending' = pending \cup
                 {[n |-> 0, vault |-> v, stage |-> "create",
                   rec |-> [ex |-> TRUE, id |-> v, createdAt |-> nCreated + 1,
                            sec |-> EmptySections]]}
            /\ ret' = NoRet
  /\ UNCHANGED <<used, store, flat, ctxActive, activeVaultId, updateQueues,
                 foldPc, foldData, seed, nEvents, foldLog>>

\* FileVaultStorage.create: await this.filesystem.exists(vaultFilePath); a
\* file that exists makes create throw, and createNew returns the failure.
CreateChecks(p) ==
  /\ p.stage = "create"
  /\ IF store[p.vault].ex
       THEN /\ pending' = pending \ {p}
            /\ ret' = Fail("createNew", p.vault, "AlreadyExists")
       ELSE /\ pending' = (pending \ {p}) \cup {[p EXCEPT !.stage = "createWrite"]}
            /\ ret' = NoRet
  /\ UNCHANGED <<used, store, flat, ctxActive, activeVaultId, updateQueues,
                 foldPc, foldData, seed, nEvents, nCreated, foldLog>>

\* FileVaultStorage.create: await this.filesystem.writeFile(vaultFilePath,
\* ...), after which createNew returns success.
CreateWrites(p) ==
  /\ p.stage = "createWrite"
  /\ store' = [store EXCEPT ![p.vault] = p.rec]
  /\ pending' = pending \ {p}
  /\ ret' = Return("createNew", p.vault, TRUE)
  /\ UNCHANGED <<used, flat, ctxActive, activeVaultId, updateQueues, foldPc,
                 foldData, seed, nEvents, nCreated, foldLog>>

\* IdentityService.createIdentity(alias) (vc-service.ts): the first step is
\* await this.vault.createNew(alias) of vault-operator.ts, and a failure of
\* it is returned at once as the failure of createIdentity. The operator
\* hands create a JSON string, so the step fails for every alias and the
\* later steps (use, the toolkit writes, updateVault) are never started;
\* concurrent calls therefore never meet on shared state.
CreateIdentity(alias) ==
  LET outcome == CreateOutcome(alias, JsonString) IN
  /\ outcome # "written"
  /\ ret' = Fail("createIdentity", alias, outcome)
  /\ UNCHANGED <<used, store, flat, ctxActive, activeVaultId, updateQueues, foldPc,
                 foldData, pending, seed, nEvents, nCreated, foldLog>>

\* FileVaultStorage.get(vaultId) called by a caller of its own: throws
\* 'does not exist' if the record file is missing, rethrows what JSON.parse
\* throws, otherwise returns the parsed record.
StorageGet(v) ==
  /\ ret' = IF ~store[v].ex THEN Throw("get", v, "NotFound")
            ELSE IF ~IsParsable(store[v]) THEN Throw("get", v, "ParseError")
            ELSE ReturnVal("get", v, store[v])
  /\ UNCHANGED <<used, store, flat, ctxActive, activeVaultId, updateQueues, foldPc,
                 foldData, pending, seed, nEvents, nCreated, foldLog>>

\* VaultOperator.getVault over FileVaultStorage.get: a missing record file is
\* a failure ('does not exist'), so is text that JSON.parse rejects;
\* otherwise the parsed record is returned.
GetVault(v) ==
  /\ ret' = IF ~store[v].ex THEN Fail("getVault", v, "NotFound")
            ELSE IF ~IsParsable(store[v]) THEN Fail("getVault", v, "ParseError")
            ELSE ReturnVal("getVault", v, store[v])
  /\ UNCHANGED <<used, store, flat, ctxActive, activeVaultId, updateQueues, foldPc,
                 foldData, pending, seed, nEvents, nCreated, foldLog>>

\* deleteVault without the existence check.
DeleteVaultUnchecked(v) ==
  /\ store' = [store EXCEPT ![v] = AbsentRec]
  /\ ret' = Return("deleteVault", v, TRUE)
  /\ UNCHANGED <<used, flat, ctxActive, activeVaultId, updateQueues, foldPc, foldData,
                 pending, seed, nEvents, nCreated, foldLog>>

\* VaultOperator.deleteVault over FileVaultStorage.delete: removes the
\* canonical record file (and nothing else).
DeleteVault(v) ==
  /\ IF store[v].ex
       THEN /\ store' = [store EXCEPT ![v] = AbsentRec]
            /\ ret' = Return("deleteVault", v, TRUE)
       ELSE /\ ret' = Fail("deleteVault", v, "NotFound")
            /\ UNCHANGED store
  /\ UNCHANGED <<used, flat, ctxActive, activeVaultId, updateQueues, foldPc, foldData,
                 pending, seed, nEvents, nCreated, foldLog>>

\* The vault object itself as the argument of the storage update.
UpdateArgumentObject(vault) == vault

\* const serializedData = JSON.stringify(vault.toJSON(), null, 2): what
\* updateVault passes to FileVaultStorage.update is a string.
UpdateArgument(vault) == StringSpread

\* VaultOperator.updateVault(vault) (vault-operator.ts): a vault without a
\* toJSON method (an object literal) makes the call fail with a TypeError;
\* otherwise the JSON string goes to FileVaultStorage.update, which throws
\* if the record file is missing and else merges and leaves its write running.
UpdateVault(vault, hasToJSON) ==
  /\ Cardinality(pending) < MaxPending
  /\ IF ~hasToJSON
       THEN /\ ret' = Fail("updateVault", vault.id, "TypeError")
            /\ UNCHANGED pending
       ELSE IF store[vault.id].ex
         THEN /\ pending' = pending \cup
                   {[n |-> 0, vault |-> vault.id, stage |-> "lock",
                     rec |-> MergeRecord(store[vault.id], UpdateArgument(vault))]}
              /\ ret' = Return("updateVault", vault.id, TRUE)
         ELSE /\ ret' = Fail("updateVault", vault.id, "NotFound")
              /\ UNCHANGED pending
  /\ UNCHANGED <<used, store, flat, ctxActive, activeVaultId, updateQueues, foldPc,
                 foldData, seed, nEvents, nCreated, foldLog>>

\* VaultOperator.listVaults (unnamed/part_011) over FileVaultStorage.list:
\* the records of all <id>.json files of the store directory.
ListVaults ==
  /\ ret' = ReturnList("listVaults", {v \in VaultIds : store[v].ex})
  /\ UNCHANGED <<used, store, flat, ctxActive, activeVaultId, updateQueues, foldPc,
                 foldData, pending, seed, nEvents, nCreated, foldLog>>

\* IdentityService.deleteIdentity(alias): fails if getVault(alias) fails;
\* otherwise calls this.vault.deleteVault(alias) without awaiting it and
\* returns success with the deletion still to run.
DeleteIdentity(v) ==
  /\ IF store[v].ex
       THEN /\ pending' = pending \cup
                 {[n |-> 0, vault |-> v, stage |-> "delete", rec |-> AbsentRec]}
            /\ ret' = Return("deleteIdentity", v, TRUE)
       ELSE /\ ret' = Fail("deleteIdentity", v, "NotFound")
            /\ UNCHANGED pending
  /\ UNCHANGED <<used, store, flat, ctxActive, activeVaultId, updateQueues, foldPc,
                 foldData, seed, nEvents, nCreated, foldLog>>

\* The deleteVault call that deleteIdentity left running: it deletes the
\* record file if it still exists; its result is discarded.
DeleteVaultRuns(p) ==
  /\ p.stage = "delete"
  /\ pending' = pending \ {p}
  /\ store' = [store EXCEPT ![p.vault] = AbsentRec]
  /\ ret' = NoRet
  /\ UNCHANGED <<used, flat, ctxActive, activeVaultId, updateQueues, foldPc, foldData,
                 seed, nEvents, nCreated, foldLog>>

\* VaultSynchronizer.setActiveVault(vaultId | null).
SetActiveVault(x) ==
  /\ activeVaultId' = x
  /\ ret' = NoRet
  /\ UNCHANGED <<used, store, flat, ctxActive, updateQueues, foldPc, foldData,
                 pending, seed, nEvents, nCreated, foldLog>>

\* VaultOperator.use (vault-operator.ts): the call to seedFilesFromVault is
\* commented out; the vault becomes active and the call succeeds.
Use(v) ==
  /\ IF store[v].ex
       THEN /\ ctxActive' = v
            /\ activeVaultId' = v
            /\ used' = used \cup {v}
            /\ ret' = Return("use", v, TRUE)
       ELSE /\ ret' = Fail("use", v, "NotFound")
            /\ UNCHANGED <<ctxActive, activeVaultId, used>>
  /\ UNCHANGED <<store, flat, updateQueues, foldPc, foldData, pending, seed,
                 nEvents, nCreated, foldLog>>

\* A toolkit write issued by an operation that called use(a) and got success
\* (createIdentity after its use step, a DID or key manager call made for
\* vault a): the adapters hold no vault id and call the router, which takes
\* the active vault from the process-wide context at the time of the write.
ToolkitWrite(a, f, c) ==
  /\ a \in used
  /\ RouterWrite(f, c)

(* --------------------- synchronizer: seeding --------------------------- *)

AllFlatFilesExist(v) == \A f \in KnownFileNames : flat[v][f].kind # "absent"

\* The order in which seedFilesFromVault writes the four flat files.
SeedOrder == <<"didStore", "keyStore", "privateKeyStore", "vcStore">>

SeedPcs == <<"write1", "write2", "write3", "write4">>

StartSeed(caller) ==
  [IdleSeed EXCEPT !.pc = "check", !.caller = caller,
                   !.prev = [ctx |-> ctxActive, sync |-> activeVaultId]]

\* VaultOperator.use (unnamed/part_011): fails if the record is missing;
\* otherwise sets both active-vault slots and awaits seedFilesFromVault,
\* whose first await (vaultStorage.exists) is taken here.
UseSeeding(v) ==
  /\ seed[v].pc = "idle"
  /\ IF store[v].ex
       THEN /\ ctxActive' = v
            /\ activeVaultId' = v
            /\ seed' = [seed EXCEPT ![v] = StartSeed("use")]
            /\ ret' = NoRet
       ELSE /\ ret' = Fail("use", v, "NotFound")
            /\ UNCHANGED <<ctxActive, activeVaultId, seed>>
  /\ UNCHANGED <<used, store, flat, updateQueues, foldPc, foldData, pending,
                 nEvents, nCreated, foldLog>>

\* A direct call of VaultSynchronizer.seedFilesFromVault(vaultId):
\* if (!await this.vaultStorage.exists(vaultId)) return Result.fail(...)
SeedCall(v) ==
  /\ seed[v].pc = "idle"
  /\ IF store[v].ex
       THEN /\ seed' = [seed EXCEPT ![v] = StartSeed("seed")]
            /\ ret' = NoRet
       ELSE /\ ret' = Fail("seed", v, "NotFound")
            /\ UNCHANGED seed
  /\ UNCHANGED <<used, store, flat, ctxActive, activeVaultId, updateQueues, foldPc,
                 foldData, pending, nEvents, nCreated, foldLog>>

\* "Check if already seeded": the DID store flat file exists.
NeverSeeded(v) == FALSE

AlreadySeeded(v) == flat[v][knownFiles["didStore"]].kind # "absent"

\* if (await this.filesystem.exists(didStorePath)) { activeVaultId = vaultId;
\* return success }; otherwise const vault = await this.vaultStorage.get(vaultId)
\* (a throw is caught and returned as a failure) and ensureDir.
SeedCheck(v) ==
  /\ seed[v].pc = "check"
  /\ IF AlreadySeeded(v)
       THEN /\ activeVaultId' = v
            /\ seed' = [seed EXCEPT ![v].pc = "idle", ![v].skipped = TRUE,
                                    ![v].prev = NoPrev]
            /\ used' = IF seed[v].caller = "use" THEN used \cup {v} ELSE used
            /\ ret' = Return(seed[v].caller, v, TRUE)
       ELSE /\ IF store[v].ex
                 THEN /\ seed' = [seed EXCEPT ![v].pc = "write1",
                                              ![v].vault = store[v]]
                      /\ ret' = NoRet
                 ELSE /\ seed' = [seed EXCEPT ![v].pc = "idle",
                                              ![v].prev = NoPrev]
                      /\ ret' = Fail(seed[v].caller, v, "NotFound")
            /\ UNCHANGED <<activeVaultId, used>>
  /\ UNCHANGED <<store, flat, ctxActive, updateQueues, foldPc, foldData,
                 pending, nEvents, nCreated, foldLog>>

\* await this.filesystem.writeFile(<path of section i>, <map or "{}">); after
\* the fourth write the vault is set active and the call succeeds.
SeedWrite(v, i) ==
  /\ seed[v].pc = SeedPcs[i]
  /\ flat' = [flat EXCEPT ![v][knownFiles[SeedOrder[i]]] =
                SeedFile(SeedOrder[i], seed[v].vault.sec[SeedOrder[i]])]
  /\ IF i < Len(SeedPcs)
       THEN /\ seed' = [seed EXCEPT ![v].pc = SeedPcs[i + 1]]
            /\ ret' = NoRet
            /\ UNCHANGED <<activeVaultId, used>>
       ELSE /\ activeVaultId' = v
            /\ seed' = [seed EXCEPT ![v].pc = "idle", ![v].prev = NoPrev]
            /\ used' = IF seed[v].caller = "use" THEN used \cup {v} ELSE used
            /\ ret' = Return(seed[v].caller, v, TRUE)
  /\ UNCHANGED <<store, ctxActive, updateQueues, foldPc, foldData, pending,
                 nEvents, nCreated, foldLog>>

\* One of the writeFile calls of seedFilesFromVault rejects: the catch at the
\* end returns the failure, which use() passes on ('Failed to initialize
\* vault'); what was written before stays and the slots are not touched.
SeedWriteFails(v, i) ==
  /\ seed[v].pc = SeedPcs[i]
  /\ seed' = [seed EXCEPT ![v].pc = "idle", ![v].prev = NoPrev]
  /\ ret' = Fail(seed[v].caller, v, "IOError")
  /\ UNCHANGED <<used, store, flat, ctxActive, activeVaultId, updateQueues, foldPc,
                 foldData, pending, nEvents, nCreated, foldLog>>

(* --------------------------- specifications ---------------------------- *)

\* The system whose operator activates a vault without seeding.
Next ==
  \/ \E v \in UsedVaultIds : CreateNew(v)
  \/ \E v \in UsedVaultIds : DeleteVault(v)
  \/ \E v \in UsedVaultIds : Use(v)
  \/ \E x \in UsedVaultIds \cup {Null} : SetActiveVault(x)
  \/ \E f \in KnownFileNames, c \in ToolkitContents : RouterWrite(f, c)
  \/ RouterWrite(OtherFile, MapFile(MapOne))
  \/ \E f \in FileNames : RouterRead(f)
  \/ \E f \in FileNames : RouterDelete(f)
  \/ \E op \in RouterOps : RouterNoVault(op)
  \/ \E v \in UsedVaultIds : FoldGet(v)
  \/ \E v \in UsedVaultIds : FoldRead(v)
  \/ \E v \in UsedVaultIds : FoldUpdate(v)
  \/ \E p \in pending : LockAcquired(p)
  \/ \E p \in pending : LockFailed(p)
  \/ \E p \in pending : WriteLands(p)

Spec == Init /\ [][Next]_vars

\* The event loop runs every fold step that stays enabled: a settled promise's
\* continuation and a completed filesystem call are always dispatched.
FairSpec ==
  /\ Spec
  /\ \A v \in UsedVaultIds :
       WF_vars(FoldGet(v)) /\ WF_vars(FoldRead(v)) /\ WF_vars(FoldUpdate(v))

\* The system whose operator seeds the flat files on use.
NextSeed ==
  \/ \E v \in UsedVaultIds : CreateNew(v)
  \/ \E v \in UsedVaultIds : UseSeeding(v)
  \/ \E v \in UsedVaultIds : SeedCall(v)
  \/ \E v \in UsedVaultIds : SeedCheck(v)
  \/ \E v \in UsedVaultIds, i \in 1..Len(SeedPcs) : SeedWrite(v, i)
  \/ \E f \in KnownFileNames, c \in ToolkitContents : RouterWrite(f, c)
  \/ \E f \in KnownFileNames : RouterDelete(f)
  \/ \E v \in UsedVaultIds : FoldGet(v)
  \/ \E v \in UsedVaultIds : FoldRead(v)
  \/ \E v \in UsedVaultIds : FoldUpdate(v)
  \/ \E p \in pending : LockAcquired(p)
  \/ \E p \in pending : WriteLands(p)

SpecSeed == Init /\ [][NextSeed]_vars

\* The vault-scoped router under two vaults: toolkit writes that succeed or
\* fail, reads and deletes, while use() moves the active vault.
NextRouter ==
  \/ \E v \in VaultIds : CreateNew(v)
  \/ \E v \in VaultIds : Use(v)
  \/ \E f \in KnownFileNames, c \in ToolkitContents : RouterWrite(f, c)
  \/ RouterWriteFails(knownFiles["keyStore"])
  \/ RouterRead(knownFiles["didStore"])
  \/ RouterDelete(knownFiles["didStore"])
  \/ \E op \in RouterOps : RouterNoVault(op)

SpecRouter == Init /\ [][NextRouter]_vars

\* Two vaults used in turn: the toolkit writes didstore.json of whichever
\* vault is active, and the folds of both queues run in any interleaving.
NextTwo ==
  \/ \E v \in VaultIds : CreateNew(v)
  \/ \E v \in VaultIds : Use(v)
  \/ \E c \in {MapFile(MapOne), CorruptFile} :
       RouterWrite(knownFiles["didStore"], c)
  \/ \E v \in VaultIds : FoldGet(v)
  \/ \E v \in VaultIds : FoldRead(v)
  \/ \E v \in VaultIds : FoldUpdate(v)
  \/ \E p \in pending : LockAcquired(p)
  \/ \E p \in pending : WriteLands(p)

SpecTwo == Init /\ [][NextTwo]_vars

\* The folds of vault vb are dispatched whenever they stay enabled; nothing
\* is assumed about the folds of va, which may stall at any step.
FairSpecTwo ==
  /\ SpecTwo
  /\ WF_vars(FoldGet("vb")) /\ WF_vars(FoldRead("vb")) /\ WF_vars(FoldUpdate("vb"))

\* Two vaults under the operator that seeds on use: use() calls for both
\* vaults overlap with each other's seeding and with toolkit writes.
NextSeedTwo ==
  \/ \E v \in VaultIds : CreateNew(v)
  \/ \E v \in VaultIds : UseSeeding(v)
  \/ \E v \in VaultIds : SeedCheck(v)
  \/ \E v \in VaultIds, i \in 1..Len(SeedPcs) : SeedWrite(v, i)
  \/ RouterWrite(knownFiles["didStore"], MapFile(MapOne))
  \/ \E v \in VaultIds : FoldGet(v)
  \/ \E v \in VaultIds : FoldRead(v)
  \/ \E v \in VaultIds : FoldUpdate(v)
  \/ \E p \in pending : LockAcquired(p)
  \/ \E p \in pending : WriteLands(p)

SpecSeedTwo == Init /\ [][NextSeedTwo]_vars

\* use() of the seeding operator with seeding that can fail: a flat-file
\* write is rejected, or the record is deleted while the call runs.
NextSeedFail ==
  \/ \E v \in UsedVaultIds : CreateNew(v)
  \/ \E v \in UsedVaultIds : DeleteVault(v)
  \/ \E v \in UsedVaultIds : UseSeeding(v)
  \/ \E v \in UsedVaultIds : SeedCheck(v)
  \/ \E v \in UsedVaultIds, i \in 1..Len(SeedPcs) : SeedWrite(v, i)
  \/ \E v \in UsedVaultIds, i \in 1..Len(SeedPcs) : SeedWriteFails(v, i)
  \/ \E x \in {Null} : SetActiveVault(x)

SpecSeedFail == Init /\ [][NextSeedFail]_vars

\* Two operations, each working on its own vault through the shared router:
\* each calls use() for its vault and then writes didstore.json.
NextShared ==
  \/ \E v \in VaultIds : CreateNew(v)
  \/ \E v \in VaultIds : Use(v)
  \/ \E a \in VaultIds : ToolkitWrite(a, knownFiles["didStore"], MapFile(MapOne))
  \/ \E v \in VaultIds : FoldGet(v)
  \/ \E v \in VaultIds : FoldRead(v)
  \/ \E v \in VaultIds : FoldUpdate(v)
  \/ \E p \in pending : LockAcquired(p)
  \/ \E p \in pending : WriteLands(p)

SpecShared == Init /\ [][NextShared]_vars

\* No use() call is between its start and its return.
NoUseRunning == \A v \in VaultIds : seed[v].pc = "idle"

\* A vault that is used and written, deleted, created again under the same
\* id and used again, by one caller that awaits each call before the next;
\* the toolkit writes only during the first life of the id (before the
\* second createNew).
NextRecreate ==
  \/ \E v \in UsedVaultIds : NoUseRunning /\ CreateNew(v)
  \/ \E v \in UsedVaultIds : NoUseRunning /\ DeleteVault(v)
  \/ \E v \in UsedVaultIds : UseSeeding(v)
  \/ \E v \in UsedVaultIds : SeedCheck(v)
  \/ \E v \in UsedVaultIds, i \in 1..Len(SeedPcs) : SeedWrite(v, i)
  \/ \E f \in KnownFileNames :
       NoUseRunning /\ nCreated = 1 /\ RouterWrite(f, MapFile(MapOne))

SpecRecreate == Init /\ [][NextRecreate]_vars

\* createNew calls that overlap, for the same id and for different ids, with
\* getVault and deleteVault calls among them.
NextCreate ==
  \/ \E v \in VaultIds : CreateNewBegins(v)
  \/ \E p \in pending : CreateChecks(p)
  \/ \E p \in pending : CreateWrites(p)
  \/ \E v \in VaultIds : GetVault(v)
  \/ \E v \in VaultIds : DeleteVault(v)

SpecCreate == Init /\ [][NextCreate]_vars

\* The arrays a section of a stored record may hold at the start.
SectionArrays ==
  {<< >>, <<RecA>>, <<RecU>>, <<RecA, RecU>>, <<RecU, RecA>>, <<RecN>>}

\* A store that holds the record of va with every section filled.
InitRound ==
  /\ \E arr \in SectionArrays :
       store = [v \in VaultIds |->
                  IF v = "va"
                    THEN [ex |-> TRUE, id |-> v, createdAt |-> 1,
                          sec |-> [s \in Sections |-> arr]]
                    ELSE AbsentRec]
  /\ flat = [v \in VaultIds |-> [f \in FileNames |-> AbsentFile]]
  /\ ctxActive = Null
  /\ activeVaultId = Null
  /\ updateQueues = [v \in VaultIds |-> << >>]
  /\ foldPc = [v \in VaultIds |-> "get"]
  /\ foldData = [v \in VaultIds |-> << >>]
  /\ pending = {}
  /\ seed = [v \in VaultIds |-> IdleSeed]
  /\ nEvents = 0
  /\ nCreated = 1
  /\ foldLog = [n \in 1..MaxEvents |-> NoFold]
  /\ used = {}
  /\ ret = NoRet

\* The toolkit saves a flat file of the active vault with the map it holds
\* (load, then save with nothing changed), which raises a write event.
Resave(f) ==
  /\ ctxActive # Null
  /\ NoUseRunning
  /\ flat[ctxActive][f].kind = "map"
  /\ RouterWrite(f, flat[ctxActive][f])

\* Seeding the flat files of a stored record and folding them back.
NextRound ==
  \/ \E v \in UsedVaultIds : UseSeeding(v)
  \/ \E v \in UsedVaultIds : SeedCheck(v)
  \/ \E v \in UsedVaultIds, i \in 1..Len(SeedPcs) : SeedWrite(v, i)
  \/ \E f \in KnownFileNames : Resave(f)
  \/ \E v \in UsedVaultIds : FoldGet(v)
  \/ \E v \in UsedVaultIds : FoldRead(v)
  \/ \E v \in UsedVaultIds : FoldUpdate(v)
  \/ \E p \in pending : LockAcquired(p)
  \/ \E p \in pending : WriteLands(p)

SpecRound == InitRound /\ [][NextRound]_vars

(* ------------------ VC store adapter over vcstore.json ------------------ *)

\* The credentials the adapter is called with.
Credentials == {RecA, RecU, RecN}

\* VCStore keys vcstore.json by the id it is given; VeramoVCService.save
\* gives it vc.id, whole.
AdapterKey(r) == r.nk

\* VCStore.loadData: the parsed map, or {} for a missing or unparsable file.
\* (Its readFileSync emits a read event, which handleFileChange drops at its
\* first early return; the event is not numbered here.)
LoadData(file) == IF file.kind = "map" THEN file.entries ELSE << >>

\* id in data
HasKey(entries, k) == \E i \in 1..Len(entries) : entries[i].k = k

\* data[id]
Lookup(entries, k) ==
  entries[CHOOSE i \in 1..Len(entries) : entries[i].k = k].v

\* VCStore.exists(id).  Without an active vault existsSync throws in
\* loadData before its try, and exists rethrows as a VError.
VCStoreExists(r) ==
  /\ NoUseRunning
  /\ ret' = IF ctxActive = Null
              THEN Throw("exists", Null, "VaultVCStoreError")
              ELSE Return("exists", ctxActive,
                     HasKey(LoadData(flat[ctxActive][knownFiles["vcStore"]]),
                            AdapterKey(r)))
  /\ UNCHANGED <<used, store, flat, ctxActive, activeVaultId, updateQueues,
                 foldPc, foldData, pending, seed, nEvents, nCreated, foldLog>>

\* VCStore.get(id): data[id] || null (a null result has ok = FALSE).
VCStoreGet(r) ==
  /\ NoUseRunning
  /\ ret' = IF ctxActive = Null
              THEN Throw("get", Null, "VaultVCStoreError")
              ELSE LET data == LoadData(flat[ctxActive][knownFiles["vcStore"]])
                   IN IF HasKey(data, AdapterKey(r))
                        THEN ReturnVal("get", ctxActive,
                                       Lookup(data, AdapterKey(r)))
                        ELSE [NoRet EXCEPT !.op = "get", !.id = ctxActive]
  /\ UNCHANGED <<used, store, flat, ctxActive, activeVaultId, updateQueues,
                 foldPc, foldData, pending, seed, nEvents, nCreated, foldLog>>

\* VeramoVCService.save(vc): fail without an id; return success if
\* storage.exists(id); else storage.create(id, vc), which loads the map,
\* sets data[id] and saves it through the Router (a write event).
Save(r) ==
  /\ NoUseRunning
  /\ LET f == knownFiles["vcStore"]
         data == LoadData(flat[ctxActive][f])
         skip == r.nk = << >> \/ ctxActive = Null \/ HasKey(data, AdapterKey(r))
         content == MapFile(PutEntry(data, AdapterKey(r), r))
     IN IF skip
          THEN /\ ret' = IF r.nk = << >>
                            THEN Fail("save", ctxActive, "Invalid credential ID format")
                          ELSE IF ctxActive = Null
                            THEN Fail("save", Null, "VaultVCStoreError")
                          ELSE Return("save", ctxActive, TRUE)
               /\ UNCHANGED <<flat, updateQueues, nEvents, foldLog>>
          ELSE /\ nEvents < MaxEvents
               /\ nEvents' = nEvents + 1
               /\ flat' = [flat EXCEPT ![ctxActive][f] = content]
               /\ Observe(FileChanged(ctxActive, f, "write"), nEvents + 1, content)
               /\ ret' = Return("save", ctxActive, TRUE)
  /\ UNCHANGED <<used, store, ctxActive, activeVaultId, foldPc, foldData,
                 pending, seed, nCreated>>

\* A stored vault is seeded by use(), then the toolkit's credential service
\* works on vcstore.json through the adapter.
NextAdapter ==
  \/ \E v \in UsedVaultIds : UseSeeding(v)
  \/ \E v \in UsedVaultIds : SeedCheck(v)
  \/ \E v \in UsedVaultIds, i \in 1..Len(SeedPcs) : SeedWrite(v, i)
  \/ \E r \in Credentials : VCStoreExists(r)
  \/ \E r \in Credentials : VCStoreGet(r)
  \/ \E r \in Credentials : Save(r)
  \/ \E v \in UsedVaultIds : FoldGet(v)
  \/ \E v \in UsedVaultIds : FoldRead(v)
  \/ \E v \in UsedVaultIds : FoldUpdate(v)
  \/ \E p \in pending : LockAcquired(p)
  \/ \E p \in pending : WriteLands(p)

SpecAdapter == InitRound /\ [][NextAdapter]_vars

\* The vault operator's calls on the canonical records: createNew in both
\* forms (unnamed/part_011 and vault-operator.ts), getVault, listVaults and
\* deleteVault, and direct updates of the storage.
NextOps ==
  \/ \E v \in VaultIds : CreateNew(v)
  \/ \E v \in VaultIds : CreateNewSerialized(v)
  \/ \E v \in VaultIds : CreateIdentity(v)
  \/ \E v \in VaultIds : GetVault(v)
  \/ \E v \in VaultIds : DeleteVault(v)
  \/ ListVaults
  \/ \E v \in UsedVaultIds : Use(v)
  \/ \E b \in BOOLEAN : UpdateVault(FullRecord, b)
  \/ \E v \in UsedVaultIds : StorageGet(v)
  \/ \E v \in UsedVaultIds, r \in Updates : StorageUpdate(v, r)
  \/ \E p \in pending : LockAcquired(p)
  \/ \E p \in pending : LockFailed(p)
  \/ \E p \in pending : WriteLands(p)

SpecOps == Init /\ [][NextOps]_vars

\* Deleting a vault while the synchronizer folds flat-file writes into it.
NextDel ==
  \/ \E v \in UsedVaultIds : CreateNew(v)
  \/ \E v \in UsedVaultIds : Use(v)
  \/ \E f \in KnownFileNames : RouterWrite(f, MapFile(MapOne))
  \/ \E v \in UsedVaultIds : FoldGet(v)
  \/ \E v \in UsedVaultIds : FoldRead(v)
  \/ \E v \in UsedVaultIds : FoldUpdate(v)
  \/ \E p \in pending : LockAcquired(p)
  \/ \E p \in pending : LockFailed(p)
  \/ \E p \in pending : WriteLands(p)
  \/ \E v \in UsedVaultIds : DeleteVault(v)
  \/ \E v \in UsedVaultIds : DeleteIdentity(v)
  \/ \E p \in pending : DeleteVaultRuns(p)
  \/ \E v \in UsedVaultIds : GetVault(v)
  \/ ListVaults

SpecDel == Init /\ [][NextDel]_vars

\* updateVault calls and folds on a created vault.
NextUpd ==
  \/ \E v \in UsedVaultIds : CreateNew(v)
  \/ \E v \in UsedVaultIds : Use(v)
  \/ \E f \in KnownFileNames : RouterWrite(f, MapFile(MapOne))
  \/ \E v \in UsedVaultIds : FoldGet(v)
  \/ \E v \in UsedVaultIds : FoldRead(v)
  \/ \E v \in UsedVaultIds : FoldUpdate(v)
  \/ \E p \in pending : LockAcquired(p)
  \/ \E p \in pending : WriteLands(p)
  \/ \E p \in pending : WriteFails(p)
  \/ \E b \in BOOLEAN : UpdateVault(FullRecord, b)

SpecUpd == Init /\ [][NextUpd]_vars

\* Readers of the record file while the writes of updates are under way.
NextWrite ==
  \/ \E v \in UsedVaultIds : CreateNew(v)
  \/ \E v \in UsedVaultIds, r \in Updates : StorageUpdate(v, r)
  \/ \E p \in pending : LockAcquired(p)
  \/ \E p \in pending : WriteTruncates(p)
  \/ \E p \in pending : WriteLands(p)
  \/ \E v \in UsedVaultIds : GetVault(v)

SpecWrite == Init /\ [][NextWrite]_vars

(* ------------------------------ claims --------------------------------- *)

Events == 1..MaxEvents

\* The event was chained onto a queue as a fold.
Enqueued(n) == foldLog[n].st \notin {"none", "ignored"}

\* The fold has read the canonical record and its write has not yet landed
\* (nor been given up).
InProgress(n) == foldLog[n].st \in {"started", "resolved"}

\* The fold has begun to execute (it may have finished since).
Begun(n) == foldLog[n].st \in {"started", "resolved", "landed", "dropped", "failed"}

\* The fold is over, its write to the canonical record included.
Finished(n) == foldLog[n].st \in {"landed", "dropped", "failed"}

\* Nothing is queued and no storage write is outstanding.
Quiescent ==
  /\ pending = {}
  /\ \A v \in VaultIds : updateQueues[v] = << >>

\* C1: at most one fold per vault id is in progress at any time: between a
\* fold's read of the canonical record of v and the landing of its write, no
\* other fold for v has read the record with its own write still to land.
C1_OneFoldInProgress ==
  \A m, n \in Events :
    (m # n /\ foldLog[m].vault = foldLog[n].vault)
      => ~(InProgress(m) /\ InProgress(n))

\* C2: folds of one vault id run in FIFO order: when the fold of a later
\* event has begun, the fold of every earlier event of that vault has read
\* and written the canonical record (or failed).
C2_FifoOrder ==
  \A m, n \in Events :
    (m < n /\ Enqueued(m) /\ Enqueued(n)
       /\ foldLog[m].vault = foldLog[n].vault /\ Begun(n))
      => Finished(m)

\* C3: a failed fold never blocks the queue: whenever a fold of vault v has
\* failed and a later fold of v is queued, that later fold is eventually
\* executed.
C3_FailedFoldDoesNotBlock ==
  \A m \in Events : \A n \in Events :
    (m < n /\ foldLog[m].st = "failed" /\ foldLog[n].st = "queued"
       /\ foldLog[m].vault = foldLog[n].vault)
      ~> Begun(n)

\* C3 witness: a fold failed on a flat file that is not JSON and the fold of
\* the next event of the same vault was executed and landed.
C3_Witness ==
  \E m, n \in Events :
    /\ m < n
    /\ foldLog[m].st = "failed"
    /\ foldLog[m].written = CorruptFile
    /\ foldLog[n].st = "landed"
    /\ foldLog[m].vault = foldLog[n].vault

\* C4: convergence without lost updates: when every event so far was a
\* toolkit write whose fold completed and landed (no failure, no ignored
\* event, the vault created once and not deleted) and nothing is
\* outstanding, every section equals the values of the current map of its
\* flat file.
C4_Convergence ==
  (/\ Quiescent
   /\ nCreated <= 1
   /\ \A n \in Events : foldLog[n].st \in {"none", "landed"})
    => \A v \in UsedVaultIds : \A s \in Sections :
         (store[v].ex /\ flat[v][knownFiles[s]].kind = "map")
           => store[v].sec[s] = ObjectValues(flat[v][knownFiles[s]].entries)

\* C5: two sequential writes to the same flat file of the same vault: after
\* both folds have landed the section holds exactly the second write's values.
C5_SecondWriteWins ==
  \A m, n \in Events :
    (/\ m < n
     /\ foldLog[m].op = "write" /\ foldLog[n].op = "write"
     /\ foldLog[m].name = foldLog[n].name
     /\ foldLog[m].vault = foldLog[n].vault
     /\ foldLog[m].st = "landed" /\ foldLog[n].st = "landed"
     /\ \A k \in Events : k > n => foldLog[k].name # foldLog[n].name
     /\ nCreated <= 1
     /\ Quiescent)
      => store[foldLog[n].vault].sec[SectionOfFile(foldLog[n].name)]
           = ObjectValues(foldLog[n].written.entries)

\* C6: when the fold of a write of map m to a known flat file has completed
\* (its update resolved) and the file has not been written since, the section
\* is the array of the values of m, one element per key.
C6_CompletedFold ==
  \A n \in Events :
    (/\ foldLog[n].st = "resolved"
     /\ flat[foldLog[n].vault][foldLog[n].name] = foldLog[n].written)
      => store[foldLog[n].vault].sec[SectionOfFile(foldLog[n].name)]
           = ObjectValues(foldLog[n].written.entries)

\* An event that can be attributed: a write of a known flat file.
Attributable(e) == e.op = "write" /\ e.name \in KnownFileNames

\* C7: events that cannot be attributed are no-ops: observing a read or
\* delete event, a write event while the synchronizer has no active vault, or
\* a write event for an unknown file name enqueues no fold, starts no storage
\* update, leaves every canonical record unchanged and raises no error; and
\* every fold ever queued or writing belongs to an attributable event.
C7_UnattributedEventsAreNoOps ==
  [][/\ \A n \in Events :
          (/\ foldLog[n].st = "none"
           /\ foldLog'[n].st # "none"
           /\ (~Attributable(foldLog'[n]) \/ activeVaultId = Null))
            => /\ updateQueues' = updateQueues
               /\ pending' = pending
               /\ store' = store
               /\ ret' = NoRet
     /\ \A p \in pending' : Attributable(foldLog'[p.n])
     /\ \A v \in VaultIds : \A i \in 1..Len(updateQueues'[v]) :
          Attributable(foldLog'[updateQueues'[v][i].n])]_vars

\* C7 witness: a write of a known flat file observed with no active vault in
\* the synchronizer, and a delete event, both ignored, with nothing queued.
C7_Witness ==
  /\ \E m, n \in Events :
       /\ Attributable(foldLog[m]) /\ foldLog[m].st = "ignored"
       /\ foldLog[n].op = "delete" /\ foldLog[n].st = "ignored"
  /\ Quiescent

\* C8: use(id) returns success only after seeding: whenever use(id) has
\* returned success, all four flat files of id exist.
C8_UseAfterSeeding ==
  (ret.op = "use" /\ ret.ok) => AllFlatFilesExist(ret.id)

\* C9: seeding never overwrites: the already-seeded check of a seeding call
\* for a vault whose four flat files exist ends the call with success and
\* changes no flat file.
C9_SeedingNeverOverwrites ==
  [][\A v \in VaultIds :
       (seed[v].pc = "check" /\ AllFlatFilesExist(v) /\ seed'[v] # seed[v])
         => /\ flat' = flat
            /\ seed'[v].pc = "idle"
            /\ ret' = Return(seed[v].caller, v, TRUE)]_vars

\* C9 witness: a direct seeding call has returned at the already-seeded check
\* although the canonical record changed since the first seeding, so that
\* seeding again would have written different flat files.
C9_Witness ==
  /\ ret = Return("seed", "va", TRUE)
  /\ seed["va"].skipped
  /\ AllFlatFilesExist("va")
  /\ store["va"].sec # EmptySections
  /\ \E s \in Sections :
       flat["va"][knownFiles[s]] # SeedFile(s, store["va"].sec[s])

\* C10: seeding a record with N DIDs, M keys, P private keys and Q
\* credentials writes flat files with exactly N, M, P and Q entries: each
\* write of a seeding call writes a map with as many entries as the section
\* of the loaded record has elements.
C10_SeedCounts ==
  [][\A v \in VaultIds : \A i \in 1..Len(SeedPcs) :
       (seed[v].pc = SeedPcs[i] /\ seed'[v] # seed[v])
         => Len(flat'[v][knownFiles[SeedOrder[i]]].entries)
              = Len(seed[v].vault.sec[SeedOrder[i]])]_vars

\* C11: whenever seedFilesFromVault(v) has returned success, all four flat
\* files of v exist, after any sequence of earlier operations.
C11_SeedSuccessAllFiles ==
  (ret.op = "seed" /\ ret.ok) => AllFlatFilesExist(ret.id)

\* C12: for every valid vault id, createNew(id) followed by getVault(id)
\* returns a record with that id, all four sections empty and createdAt set:
\* createNew(id) with no record of id stores such a record, and getVault(id)
\* returns the stored record.
C12_CreateThenGet ==
  [][\A v \in VaultIds :
       /\ ((CreateNew(v) \/ CreateNewSerialized(v)) /\ ~store[v].ex)
            => /\ store'[v].ex
               /\ store'[v].id = v
               /\ store'[v].sec = EmptySections
               /\ store'[v].createdAt > 0
       /\ (GetVault(v) /\ store[v].ex)
            => ret' = ReturnVal("getVault", v, store[v])]_vars

\* C13: createNew(id) for an id whose vault exists fails with AlreadyExists
\* and leaves the stored record unchanged.
C13_CreateExistingFails ==
  [][\A v \in VaultIds :
       ((CreateNew(v) \/ CreateNewSerialized(v)) /\ store[v].ex)
         => /\ store' = store
            /\ ret' = Fail("createNew", v, "AlreadyExists")]_vars

\* C14: deleteVault(id) removes both the canonical record and the vault
\* directory with its flat files: after a successful deleteVault(id) neither
\* the record nor any flat file of id exists.
C14_DeleteRemovesDirectory ==
  [][\A v \in VaultIds :
       (DeleteVault(v) /\ store[v].ex)
         => /\ ~store'[v].ex
            /\ \A f \in FileNames : flat'[v][f].kind = "absent"]_vars

\* C15: once a delete of id has returned success (deleteVault(id) or
\* deleteIdentity(id)), a getVault(id) started afterwards fails with NotFound
\* and listVaults no longer contains id: a successful delete leaves no
\* record of id, a record that is absent stays absent until a createNew(id),
\* and getVault and listVaults report an absent record as absent.
C15_DeletedStaysDeleted ==
  [][\A v \in VaultIds :
       /\ ((DeleteVault(v) \/ DeleteIdentity(v)) /\ store[v].ex)
            => ~store'[v].ex
       /\ (~store[v].ex /\ store'[v].ex) => CreateNew(v)
       /\ (GetVault(v) /\ ~store[v].ex)
            => ret' = Fail("getVault", v, "NotFound")
       /\ (ListVaults /\ ~store[v].ex) => v \notin ret'.list]_vars

\* C16: getVault(id) and deleteVault(id) for an id with no vault return a
\* NotFound failure and leave every vault's record unchanged.
C16_MissingVaultFails ==
  [][\A v \in VaultIds :
       ((GetVault(v) \/ DeleteVault(v)) /\ ~store[v].ex)
         => /\ store' = store
            /\ ~ret'.ok
            /\ ret'.err = "NotFound"]_vars

\* C16 witness: deleteVault or getVault of a missing vault has failed while
\* the other vault exists.
C16_Witness ==
  /\ ret.op \in {"getVault", "deleteVault"}
  /\ ret.id \in VaultIds
  /\ ret.err = "NotFound"
  /\ ~store[ret.id].ex
  /\ \E w \in VaultIds \ {ret.id} : store[w].ex

\* C17: every router operation (exists, read, write, delete, ensureDir,
\* readDir) attempted while no vault is active fails with NoActiveVault,
\* touches no file and emits no change event: the operation returns that
\* failure, and while no vault is active no step changes a flat file or a
\* record, emits an event or queues a fold.
C17_NoActiveVaultFails ==
  [][ctxActive = Null
       => /\ \A op \in RouterOps :
               (ret'.op = op /\ ret' # ret)
                 => ret' = Fail(op, Null, "NoActiveVault")
          /\ flat' = flat
          /\ nEvents' = nEvents
          /\ foldLog' = foldLog
          /\ updateQueues' = updateQueues]_vars

\* C17 witness: a router write was attempted with no active vault while a
\* vault exists, and has failed.
C17_Witness ==
  /\ ctxActive = Null
  /\ ret = Fail("write", Null, "NoActiveVault")
  /\ store["va"].ex

C19_CreatedAtImmutable ==
  [][\A v \in VaultIds :
       /\ (CreateNew(v) /\ ~store[v].ex) => store'[v].createdAt > 0
       /\ (store[v].ex /\ store'[v].ex)
            => store'[v].createdAt = store[v].createdAt]_vars

\* C19 witness: the write of a fold has landed and after it the write of an
\* updateVault call (which put back the sections it had read before the
\* fold); the record carries the createdAt of its creation.
C19_Witness ==
  /\ store["va"].ex
  /\ store["va"].createdAt = 1
  /\ store["va"].sec = EmptySections
  /\ \E n \in DOMAIN foldLog : foldLog[n].st = "landed"
  /\ pending = {}

\* C20: a write of the canonical record is atomic with respect to readers:
\* a get(id) of a vault whose record file exists, running while the write of
\* an update(id) is in progress, returns a complete record of id (the old
\* one or the new one), never a failure or a partial record.
C20_AtomicRecordWrite ==
  [][\A v \in VaultIds :
       (GetVault(v) /\ store[v].ex)
         => /\ ret'.ok
            /\ ret'.val.ex
            /\ ret'.val.id = v]_vars

\* C21: the operations of the Vault Operator and of Vault Storage report
\* every error, for every storage or filesystem failure, as an explicit
\* failure result and never throw across the public boundary: no call of
\* the operator and nothing it leaves running ends with an exception.
C21_NeverThrows == ~ret.thrown

\* C22: updateVault(record) is fail-propagating: it returns success only
\* if the record was written, so when it has returned success no write of
\* its update is still to be attempted (and could still fail).
C22_UpdateVaultPropagates ==
  (ret.op = "updateVault" /\ ret.ok)
    => ~\E p \in pending : p.n = 0 /\ p.vault = ret.id

\* C23: createIdentity calls for pairwise distinct aliases, in any
\* interleaving, all return success (and listIdentities then has one
\* identity per alias): no createIdentity call ends in a failure.
C23_ConcurrentCreatesSucceed ==
  ret.op = "createIdentity" => ret.ok

\* C24: a fold replaces exactly the section matched by the written file name:
\* when the write of a fold lands in a record that exists (and was created
\* once), the other three sections, the id and createdAt of the record are
\* what they were before.
C24_FoldReplacesOneSection ==
  [][\A p \in pending :
       (/\ WriteLands(p)
        /\ p.n \in DOMAIN foldLog
        /\ store[p.vault].ex
        /\ nCreated <= 1)
         => /\ store'[p.vault].id = store[p.vault].id
            /\ store'[p.vault].createdAt = store[p.vault].createdAt
            /\ \A s \in Sections \ {SectionOfFile(foldLog[p.n].name)} :
                 store'[p.vault].sec[s] = store[p.vault].sec[s]]_vars

\* The flat file the fold at the head of v's queue is about to read is
\* missing or is not JSON.
Unreadable(v) ==
  /\ updateQueues[v] # << >>
  /\ foldPc[v] = "read"
  /\ flat[HeadFold(v).filePath.dir][HeadFold(v).filePath.name].kind # "map"

\* C25: a fold whose flat file cannot be read or parsed is dropped as a
\* whole: its read step ends the fold (it leaves the queue as failed), every
\* canonical record is what it was, and no write of that fold is started.
C25_UnreadableFoldDropped ==
  [][\A v \in UsedVaultIds :
       (Unreadable(v) /\ FoldRead(v))
         => /\ store' = store
            /\ pending' = pending
            /\ updateQueues'[v] = Tail(updateQueues[v])
            /\ foldPc'[v] = "get"
            /\ foldLog'[HeadFold(v).n].st = "failed"]_vars

\* A fold that read a corrupt flat file has failed, with the record it was
\* to update in place, untouched and with no write outstanding.
C25_Witness ==
  \E n \in Events :
    /\ foldLog[n].st = "failed"
    /\ foldLog[n].written = CorruptFile
    /\ flat[foldLog[n].vault][foldLog[n].name] = CorruptFile
    /\ store[foldLog[n].vault].ex
    /\ nCreated = 1
    /\ store[foldLog[n].vault].sec = EmptySections
    /\ pending = {}

\* C26: the synchronizer's active vault id is v only after all four flat
\* files of v have been written or were present: v is never the
\* synchronizer's active vault while one of v's flat files is missing.
C26_ActiveOnlyWhenSeeded ==
  activeVaultId # Null => AllFlatFilesExist(activeVaultId)

\* C27: a Router write while vault A is active changes only the file
\* <baseDir>/A/<filename> (whose existence implies A's directory) and then
\* emits exactly one event, a write event with vaultId A for that file name;
\* a write that fails emits no event and changes no other file.
C27_RouterWriteScoped ==
  [][/\ \A f \in FileNames, c \in ToolkitContents :
          RouterWrite(f, c)
            => /\ flat'[ctxActive][f] = c
               /\ \A v \in VaultIds, g \in FileNames :
                    (v # ctxActive \/ g # f) => flat'[v][g] = flat[v][g]
               /\ store' = store
               /\ nEvents' = nEvents + 1
               /\ foldLog'[nEvents'].op = "write"
               /\ foldLog'[nEvents'].eventVault = ctxActive
               /\ foldLog'[nEvents'].name = f
               /\ \A n \in DOMAIN foldLog :
                    n # nEvents' => foldLog'[n] = foldLog[n]
     /\ \A f \in FileNames :
          RouterWriteFails(f)
            => /\ nEvents' = nEvents
               /\ foldLog' = foldLog
               /\ updateQueues' = updateQueues
               /\ \A v \in VaultIds, g \in FileNames :
                    (v # ctxActive \/ g # f) => flat'[v][g] = flat[v][g]]_vars

\* A write of didstore.json while va is active has been followed by a failed
\* write of keystore.json: one event, one file of va changed by the write.
C27_Witness ==
  /\ ctxActive = "va"
  /\ nEvents = 1
  /\ foldLog[1].op = "write"
  /\ foldLog[1].eventVault = "va"
  /\ foldLog[1].name = knownFiles["didStore"]
  /\ flat["va"][knownFiles["didStore"]] = MapFile(MapOne)
  /\ flat["va"][knownFiles["keyStore"]] = CorruptFile
  /\ ret = Throw("write", "va", "IOError")

\* The next step of the fold at the head of v's queue.
FoldStep(v) == FoldGet(v) \/ FoldRead(v) \/ FoldUpdate(v)

\* The fold has left its queue: its update resolved or it failed.
Settled(n) == foldLog[n].st \in {"resolved", "landed", "dropped", "failed"}

\* C28: folds for different vault ids are independent: whatever the state of
\* the other vault's queue, the fold at the head of a queue can take its
\* next step, and a fold queued for vb settles although nothing makes the
\* folds of va progress (they may be slow, stall or fail).
C28_IndependentFolds ==
  /\ [](\A v \in VaultIds : updateQueues[v] # << >> => ENABLED FoldStep(v))
  /\ \A n \in Events :
       (foldLog[n].vault = "vb" /\ Enqueued(n)) ~> Settled(n)

\* The fold of the later event, for vb, has landed while the fold of the
\* earlier event, for va, is stalled after its first step.
C28_Witness ==
  /\ foldLog[1].vault = "va" /\ foldLog[1].st = "started"
  /\ foldLog[2].vault = "vb" /\ foldLog[2].st = "landed"
  /\ updateQueues["va"] # << >>
  /\ store["vb"].sec["didStore"] = ObjectValues(MapOne)

\* C29: readers of the active vault never use a stale value: every step of a
\* fold, which runs after the suspension points of the queue and of its own
\* awaits, works on the vault that is the synchronizer's active vault at
\* that step.
C29_NoStaleActiveVault ==
  [][\A v \in VaultIds :
       (FoldGet(v) \/ FoldRead(v) \/ FoldUpdate(v)) => activeVaultId = v]_vars

\* C30: vault isolation of folds: the vault whose canonical record a fold
\* updates is the vault of the write event that triggered it (so what the
\* fold writes was read from a flat file of that vault's own directory).
C30_FoldUpdatesEventVault ==
  \A n \in Events :
    foldLog[n].st \in {"resolved", "landed"}
      => foldLog[n].vault = foldLog[n].eventVault

\* C31: read-your-writes for the canonical record: a get(id) started after
\* an update(id, r) has resolved, with the record still in place, returns
\* the merged record of a resolved update, so never a record from before
\* the updates whose writes are outstanding.
C31_ReadYourWrites ==
  [][\A v \in UsedVaultIds :
       (/\ StorageGet(v)
        /\ store[v].ex
        /\ \E p \in pending : p.vault = v)
         => /\ ret'.ok
            /\ \E p \in pending : p.vault = v /\ ret'.val = p.rec]_vars

\* C32: a direct updateVault and the folds of the same vault are serialized
\* and neither update is lost: with one fold and any number of updateVault
\* calls on a vault created once, when the write of the fold has landed and
\* nothing is outstanding, the section of the fold holds the values the
\* fold read (updateVault, which passes a string, changes no section in
\* either order).
C32_UpdateAndFoldSerialized ==
  (/\ Quiescent
   /\ nCreated <= 1
   /\ nEvents = 1
   /\ foldLog[1].st = "landed")
    => store[foldLog[1].vault].sec[SectionOfFile(foldLog[1].name)]
         = ObjectValues(foldLog[1].written.entries)

\* C33: a use(id) that returns failure leaves the Active-Vault Context and
\* the synchronizer's active vault id as they were before the call, both
\* when the vault is not found and when seeding fails.
C33_FailedUseLeavesSlots ==
  [][\A v \in UsedVaultIds :
       /\ (UseSeeding(v) /\ ~store[v].ex)
            => ctxActive' = ctxActive /\ activeVaultId' = activeVaultId
       /\ (/\ seed[v].caller = "use"
           /\ seed[v].pc # "idle"
           /\ seed'[v].pc = "idle"
           /\ ~ret'.ok)
            => /\ ctxActive' = seed[v].prev.ctx
               /\ activeVaultId' = seed[v].prev.sync]_vars

\* C34: a toolkit write issued by an operation after its own use(a) returned
\* success lands in the directory of a and is queued as a fold of the
\* record of a, whatever use() calls other operations made in between.
C34_WriteLandsInOwnVault ==
  [][\A a \in VaultIds :
       ToolkitWrite(a, knownFiles["didStore"], MapFile(MapOne))
         => /\ flat'[a][knownFiles["didStore"]] = MapFile(MapOne)
            /\ foldLog'[nEvents'].eventVault = a
            /\ foldLog'[nEvents'].vault = a]_vars

\* C35: a deleted vault is never resurrected: once the record of a vault
\* that had been created is gone, only a createNew of that id makes a
\* record of it exist again, whatever fold or update was in flight when the
\* delete ran.
C35_NeverResurrected ==
  [][\A v \in UsedVaultIds :
       (nCreated > 0 /\ ~store[v].ex /\ store'[v].ex) => CreateNew(v)]_vars

\* C36: after deleteVault(id), createNew(id) and use(id), the four flat files
\* of id hold nothing of the deleted vault: when use(id) has returned success
\* for the id created a second time (and nothing was written since that
\* createNew), each flat file is the projection of the section of the new
\* record.
C36_RecreatedVaultIsClean ==
  (/\ ret = Return("use", "va", TRUE)
   /\ nCreated = 2
   /\ store["va"].ex)
    => \A s \in Sections :
         flat["va"][knownFiles[s]] = SeedFile(s, store["va"].sec[s])

\* C37: of two concurrent createNew(id) calls for the same id at most one
\* returns success, and the stored record is the one the successful call
\* wrote: a createNew that returns success has created the record, which
\* did not exist when its write was made.
C37_OneCreateSucceeds ==
  [][\A p \in pending :
       CreateWrites(p)
         => /\ ~store[p.vault].ex
            /\ store'[p.vault] = p.rec]_vars

\* The set of the elements of an array.
Range(arr) == {arr[i] : i \in DOMAIN arr}

\* Every record of the array carries its natural key and the keys are
\* pairwise distinct.
KeysDistinct(arr) ==
  /\ \A i \in DOMAIN arr : arr[i].nk # << >>
  /\ \A i, j \in DOMAIN arr : i # j => arr[i].nk # arr[j].nk

\* C38: seed-then-fold round trip: for a record whose sections hold records
\* with their natural keys, pairwise distinct, once the flat files were
\* seeded from it and folds of seeded files have landed with nothing
\* outstanding, each folded section holds the same set of records as before.
C38_SeedFoldRoundTrip ==
  \A n \in Events :
    LET s == SectionOfFile(foldLog[n].name)
        before == seed["va"].vault
    IN (/\ foldLog[n].st = "landed"
        /\ Quiescent
        /\ before.ex
        /\ KeysDistinct(before.sec[s])
        /\ foldLog[n].written = SeedFile(s, before.sec[s]))
         => Range(store["va"].sec[s]) = Range(before.sec[s])

\* vcstore.json of va is as the last seeding wrote it, and the credential
\* was in the vcStore section the seeding read.
SeededWith(r) ==
  /\ ctxActive = "va"
  /\ "va" \in used
  /\ seed["va"].vault.ex
  /\ r.nk # << >>
  /\ r \in Range(seed["va"].vault.sec["vcStore"])
  /\ flat["va"][knownFiles["vcStore"]] =
       SeedFile("vcStore", seed["va"].vault.sec["vcStore"])

\* C39: seeding and the VC store adapter agree on keys: for a credential
\* that was in the vcStore when the vault was seeded, exists(id) returns
\* true, get(id) returns the credential, and save leaves vcstore.json as it
\* is (no second entry).
C39_SeedingAndAdapterAgree ==
  [][\A r \in Credentials :
       /\ (SeededWith(r) /\ VCStoreExists(r)) => ret'.ok
       /\ (SeededWith(r) /\ VCStoreGet(r)) => (ret'.ok /\ ret'.val = r)
       /\ (SeededWith(r) /\ Save(r)) => flat' = flat]_vars

====
